---- MODULE Spec2Model ----
(***************************************************************************)
(* Model of frontend/main2.py: the Streamlit chat client with citation     *)
(* modal.  One script run ("pass") is main(): initialize_app,              *)
(* render_sidebar, render_chat_area, display_citation_modal.  A widget     *)
(* that was activated makes its handler run inside the pass; st.rerun()    *)
(* aborts the pass and starts a new one in which no widget is activated.   *)
(* st.session_state persists between passes and is the program state.      *)
(*                                                                         *)
(* The collaborators (the utils api functions) and the Modal class are not *)
(* part of main2.py; they are modelled from their documented contract:     *)
(* a collaborator returns a value or a falsy failure sentinel, the Modal   *)
(* keeps one boolean open flag.                                            *)
(***************************************************************************)
EXTENDS Integers, Sequences, FiniteSets, TLC

\* ------------------------------------------------------------------ bounds
NumSessions == 2
NumCitations == 2
MaxMsgs == 1

\* ------------------------------------------------------------- data values
None == 0
SessionIds == 1..NumSessions
CitationIds == 1..NumCitations
DocIds == {1}
Texts == {"", "hello"}

EmptyDict == <<>>

RECURSIVE SetToSeq(_)
SetToSeq(S) ==
    IF S = {} THEN <<>>
    ELSE LET x == CHOOSE y \in S : \A z \in S : y <= z
         IN  <<x>> \o SetToSeq(S \ {x})

\* dict[k] = v
Put(d, k, v) == [x \in (DOMAIN d) \cup {k} |-> IF x = k THEN v ELSE d[x]]

Session(s) == [id |-> s]
Message(cs) == [role |-> "assistant", citations |-> cs]
Document(d) == [id |-> d]

\* The citation lists a message may carry: the first n citation ids, in order.
CitationLists == {SetToSeq(1..n) : n \in 0..NumCitations}
Messages == {Message(cs) : cs \in CitationLists}
Transcripts == UNION {[1..n -> Messages] : n \in 0..MaxMsgs}
DocIdLists == {SetToSeq(S) : S \in SUBSET DocIds}

\* ------------------------------------------------------------ collaborators
\* A result is [ok, val]; val is what the caller receives, the falsy sentinel
\* (an empty sequence, or None) when the call failed.
Failure == [ok |-> FALSE, val |-> <<>>]

api_get_sessions ==
    {[ok |-> TRUE, val |-> [i \in DOMAIN l |-> Session(l[i])]] :
        l \in {SetToSeq(S) : S \in SUBSET SessionIds}} \cup {Failure}

api_create_session ==
    {[ok |-> TRUE, val |-> Session(s)] : s \in SessionIds} \cup {Failure}

api_get_messages(chat_id) ==
    {[ok |-> TRUE, val |-> t] : t \in Transcripts} \cup {Failure}

api_create_message(chat_id, role, text) ==
    {[ok |-> TRUE, val |-> <<Message(<<>>)>>], Failure}

api_get_citation(citation_id) ==
    {[ok |-> TRUE, val |-> l] : l \in DocIdLists} \cup {Failure}

api_get_docs(doc_ids) ==
    {[ok |-> TRUE, val |-> [i \in DOMAIN doc_ids |-> Document(doc_ids[i])]],
     Failure}

\* One entry of the log of collaborator calls made in the current pass.
Call(op, arg, r) == [op |-> op, arg |-> arg, ok |-> r.ok, ret |-> r.val]

\* -------------------------------------------------------------------- state
VARIABLES
    chat_sessions,      \* st.session_state.chat_sessions: id -> session
    current_chat_id,    \* st.session_state.current_chat_id
    messages,           \* st.session_state.messages
    show_citation_id,   \* st.session_state.show_citation_id
    documents_cache,    \* st.session_state.documents_cache: citation id -> docs
    modal_open,         \* the Modal's open flag (modal.is_open())
    pc,                 \* position of the script: start, idle, rerun, modal, resolve
    view,               \* what the modal container rendered in this pass
    docs,               \* the documents the modal container rendered
    act,                \* the handler that started the current pass
    calls,              \* the collaborator calls made in the current pass
    resolved,           \* what each citation id resolved to (non-empty) since the last cache reset
    widgets,            \* the st.button calls render_chat_message made in this pass, in order
    error               \* the exception raised in this pass or by the click script

state == <<chat_sessions, current_chat_id, messages, show_citation_id,
           documents_cache, modal_open>>
vars == <<chat_sessions, current_chat_id, messages, show_citation_id,
          documents_cache, modal_open, pc, view, docs, act, calls, resolved,
          widgets, error>>

Act(name, id, text) == [name |-> name, id |-> id, text |-> text]

\* The citation ids for which render_chat_message draws an action control.
DisplayedCitations ==
    IF current_chat_id = None THEN {}
    ELSE UNION {{messages[i].citations[j] : j \in DOMAIN messages[i].citations} :
                  i \in DOMAIN messages}

Init ==
    /\ chat_sessions = EmptyDict
    /\ current_chat_id = None
    /\ messages = <<>>
    /\ show_citation_id = None
    /\ documents_cache = EmptyDict
    /\ modal_open = FALSE
    /\ pc = "start"
    /\ view = "none"
    /\ docs = <<>>
    /\ act = Act("none", None, "")
    /\ calls = <<>>
    /\ resolved = EmptyDict
    /\ widgets = <<>>
    /\ error = "none"

\* ------------------------------------------------------------------ handlers
\* A handler starts a pass: the page is drawn anew and the call log is empty.
NewPass(a) ==
    /\ act' = a
    /\ view' = "none"
    /\ docs' = <<>>
    /\ UNCHANGED <<widgets, error>>

\* initialize_app on the first pass: the session list is fetched once.
InitializeApp ==
    /\ pc = "start"
    /\ \E r \in api_get_sessions :
        /\ chat_sessions' =
              IF r.val # <<>>
              THEN [s \in {r.val[i].id : i \in DOMAIN r.val} |-> Session(s)]
              ELSE EmptyDict
        /\ calls' = <<Call("get_sessions", None, r)>>
    /\ current_chat_id' = None
    /\ messages' = <<>>
    /\ show_citation_id' = None
    /\ documents_cache' = EmptyDict
    /\ NewPass(Act("init", None, ""))
    /\ pc' = "modal"
    /\ UNCHANGED <<modal_open, resolved>>

\* create_new_chat with the reset done before the result is tested.
create_new_chat_ResetFirst ==
    /\ pc = "idle"
    /\ \E new_session \in api_create_session :
        /\ calls' = <<Call("create_session", None, new_session)>>
        /\ messages' = <<>>
        /\ show_citation_id' = None
        /\ documents_cache' = EmptyDict
        /\ resolved' = EmptyDict
        /\ IF new_session.ok
           THEN /\ chat_sessions' =
                     Put(chat_sessions, new_session.val.id, new_session.val)
                /\ current_chat_id' = new_session.val.id
                /\ pc' = "rerun"
           ELSE /\ UNCHANGED <<chat_sessions, current_chat_id>>
                /\ pc' = "modal"
    /\ NewPass(Act("create", None, ""))
    /\ UNCHANGED modal_open

\* create_new_chat without the `messages = []` of line 347.
create_new_chat_KeepMessages ==
    /\ pc = "idle"
    /\ \E new_session \in api_create_session :
        /\ calls' = <<Call("create_session", None, new_session)>>
        /\ IF new_session.ok
           THEN /\ chat_sessions' =
                     Put(chat_sessions, new_session.val.id, new_session.val)
                /\ current_chat_id' = new_session.val.id
                /\ show_citation_id' = None
                /\ documents_cache' = EmptyDict
                /\ resolved' = EmptyDict
                /\ pc' = "rerun"
                /\ UNCHANGED messages
           ELSE /\ UNCHANGED <<chat_sessions, current_chat_id, messages,
                               show_citation_id, documents_cache, resolved>>
                /\ pc' = "modal"
    /\ NewPass(Act("create", None, ""))
    /\ UNCHANGED modal_open

\* The new-chat controls (new_chat_btn, text_chat_trigger).
create_new_chat ==
    /\ pc = "idle"
    /\ \E new_session \in api_create_session :
        /\ calls' = <<Call("create_session", None, new_session)>>
        /\ IF new_session.ok
           THEN /\ chat_sessions' =
                     Put(chat_sessions, new_session.val.id, new_session.val)
                /\ current_chat_id' = new_session.val.id
                /\ messages' = <<>>
                /\ show_citation_id' = None
                /\ documents_cache' = EmptyDict
                /\ resolved' = EmptyDict
                /\ pc' = "rerun"
           ELSE /\ UNCHANGED <<chat_sessions, current_chat_id, messages,
                               show_citation_id, documents_cache, resolved>>
                /\ pc' = "modal"
    /\ NewPass(Act("create", None, ""))
    /\ UNCHANGED modal_open

\* select_session without the "already active" test of line 203.
select_session_AlwaysFetch(chat_id) ==
    /\ pc = "idle"
    /\ chat_id \in DOMAIN chat_sessions
    /\ \E r \in api_get_messages(chat_id) :
        /\ current_chat_id' = chat_id
        /\ show_citation_id' = None
        /\ documents_cache' = EmptyDict
        /\ resolved' = EmptyDict
        /\ messages' = r.val
        /\ calls' = <<Call("get_messages", chat_id, r)>>
        /\ pc' = "rerun"
    /\ NewPass(Act("select", chat_id, ""))
    /\ UNCHANGED <<chat_sessions, modal_open>>

\* A chat button of the sidebar.
select_session(chat_id) ==
    /\ pc = "idle"
    /\ chat_id \in DOMAIN chat_sessions
    /\ IF current_chat_id # chat_id
       THEN \E r \in api_get_messages(chat_id) :
            /\ current_chat_id' = chat_id
            /\ show_citation_id' = None
            /\ documents_cache' = EmptyDict
            /\ resolved' = EmptyDict
            /\ messages' = r.val
            /\ calls' = <<Call("get_messages", chat_id, r)>>
            /\ pc' = "rerun"
       ELSE /\ UNCHANGED <<current_chat_id, show_citation_id, documents_cache,
                           resolved, messages>>
            /\ calls' = <<>>
            /\ pc' = "modal"
    /\ NewPass(Act("select", chat_id, ""))
    /\ UNCHANGED <<chat_sessions, modal_open>>

\* The citation control ignoring a click while a citation is already selected.
click_citation_FirstWins(citation_id) ==
    /\ pc = "idle"
    /\ citation_id \in DisplayedCitations
    /\ show_citation_id' =
          IF show_citation_id = None THEN citation_id ELSE show_citation_id
    /\ calls' = <<>>
    /\ pc' = "rerun"
    /\ NewPass(Act("click", citation_id, ""))
    /\ UNCHANGED <<chat_sessions, current_chat_id, messages, documents_cache,
                   modal_open, resolved>>

\* The action control trigger-button-<citation_id> of a displayed citation.
click_citation(citation_id) ==
    /\ pc = "idle"
    /\ citation_id \in DisplayedCitations
    /\ show_citation_id' = citation_id
    /\ calls' = <<>>
    /\ pc' = "rerun"
    /\ NewPass(Act("click", citation_id, ""))
    /\ UNCHANGED <<chat_sessions, current_chat_id, messages, documents_cache,
                   modal_open, resolved>>

\* submit_message with the optimistic local append instead of the refresh.
submit_message_AppendLocally(user_input) ==
    /\ pc = "idle"
    /\ current_chat_id # None
    /\ IF user_input # ""
       THEN \E created \in api_create_message(current_chat_id, "user", user_input) :
            IF created.ok
            THEN /\ messages' = messages \o created.val
                 /\ calls' = <<Call("create_message", current_chat_id, created)>>
                 /\ pc' = "rerun"
            ELSE /\ UNCHANGED messages
                 /\ calls' = <<Call("create_message", current_chat_id, created)>>
                 /\ pc' = "modal"
       ELSE /\ UNCHANGED messages
            /\ calls' = <<>>
            /\ pc' = "modal"
    /\ NewPass(Act("submit", current_chat_id, user_input))
    /\ UNCHANGED <<chat_sessions, current_chat_id, show_citation_id,
                   documents_cache, modal_open, resolved>>

\* submit_message without the `if user_input:` test of line 319.
submit_message_NoEmptyTest(user_input) ==
    /\ pc = "idle"
    /\ current_chat_id # None
    /\ \E created \in api_create_message(current_chat_id, "user", user_input) :
            IF created.ok
            THEN \E r \in api_get_messages(current_chat_id) :
                 /\ messages' = r.val
                 /\ calls' = <<Call("create_message", current_chat_id, created),
                               Call("get_messages", current_chat_id, r)>>
                 /\ pc' = "rerun"
            ELSE /\ UNCHANGED messages
                 /\ calls' = <<Call("create_message", current_chat_id, created)>>
                 /\ pc' = "modal"
    /\ NewPass(Act("submit", current_chat_id, user_input))
    /\ UNCHANGED <<chat_sessions, current_chat_id, show_citation_id,
                   documents_cache, modal_open, resolved>>

\* The chat input, drawn only when a chat is active.
submit_message(user_input) ==
    /\ pc = "idle"
    /\ current_chat_id # None
    /\ IF user_input # ""
       THEN \E created \in api_create_message(current_chat_id, "user", user_input) :
            IF created.ok
            THEN \E r \in api_get_messages(current_chat_id) :
                 /\ messages' = r.val
                 /\ calls' = <<Call("create_message", current_chat_id, created),
                               Call("get_messages", current_chat_id, r)>>
                 /\ pc' = "rerun"
            ELSE /\ UNCHANGED messages
                 /\ calls' = <<Call("create_message", current_chat_id, created)>>
                 /\ pc' = "modal"
       ELSE /\ UNCHANGED messages
            /\ calls' = <<>>
            /\ pc' = "modal"
    /\ NewPass(Act("submit", current_chat_id, user_input))
    /\ UNCHANGED <<chat_sessions, current_chat_id, show_citation_id,
                   documents_cache, modal_open, resolved>>

\* The close button closing the modal without clearing show_citation_id
\* (line 395 missing).
close_citation_KeepSelected ==
    /\ pc = "idle"
    /\ view \in {"ready", "empty"}
    /\ modal_open' = FALSE
    /\ calls' = <<>>
    /\ pc' = "rerun"
    /\ NewPass(Act("close", show_citation_id, ""))
    /\ UNCHANGED <<chat_sessions, current_chat_id, messages, show_citation_id,
                   documents_cache, resolved>>

\* The "Close Citation" button of the modal container.
close_citation ==
    /\ pc = "idle"
    /\ view \in {"ready", "empty"}
    /\ show_citation_id' = None
    /\ modal_open' = FALSE
    /\ calls' = <<>>
    /\ pc' = "rerun"
    /\ NewPass(Act("close", show_citation_id, ""))
    /\ UNCHANGED <<chat_sessions, current_chat_id, messages, documents_cache,
                   resolved>>

\* A control without a state effect (settings_btn, profile_btn): a plain pass.
click_settings ==
    /\ pc = "idle"
    /\ calls' = <<>>
    /\ pc' = "modal"
    /\ NewPass(Act("settings", None, ""))
    /\ UNCHANGED <<state, resolved>>

\* A pass whose initialize_app fetches the session list again (the test of
\* line 137 missing).
Rerun_RefetchSessions ==
    /\ pc = "rerun"
    /\ \E r \in api_get_sessions :
        /\ chat_sessions' =
              IF r.val # <<>>
              THEN [s \in {r.val[i].id : i \in DOMAIN r.val} |-> Session(s)]
              ELSE EmptyDict
        /\ calls' = <<Call("get_sessions", None, r)>>
    /\ pc' = "modal"
    /\ NewPass(Act("rerun", None, ""))
    /\ UNCHANGED <<current_chat_id, messages, show_citation_id,
                   documents_cache, modal_open, resolved>>

\* st.rerun(): the pass starts over with no control activated.
Rerun ==
    /\ pc = "rerun"
    /\ calls' = <<>>
    /\ pc' = "modal"
    /\ NewPass(Act("rerun", None, ""))
    /\ UNCHANGED <<state, resolved>>

\* ------------------------------------------------------ display_citation_modal
\* display_citation_modal without the modal.open() of line 360.
OpenCheck_NoOpen ==
    /\ pc = "modal"
    /\ pc' = IF modal_open /\ show_citation_id # None THEN "resolve" ELSE "idle"
    /\ UNCHANGED <<chat_sessions, current_chat_id, messages, show_citation_id,
                   documents_cache, modal_open, view, docs, act, calls, resolved,
                   widgets, error>>

\* display_citation_modal drawing the container for a selected citation
\* without opening the modal first.
OpenCheck_DrawUnopened ==
    /\ pc = "modal"
    /\ pc' = IF show_citation_id # None THEN "resolve" ELSE "idle"
    /\ UNCHANGED <<chat_sessions, current_chat_id, messages, show_citation_id,
                   documents_cache, modal_open, view, docs, act, calls, resolved,
                   widgets, error>>

\* Lines 359-364: open the modal when a citation is selected, then decide
\* whether the container is drawn; docs is None until it is resolved.
OpenCheck ==
    /\ pc = "modal"
    /\ modal_open' = IF show_citation_id # None /\ ~modal_open THEN TRUE ELSE modal_open
    /\ pc' = IF modal_open' /\ show_citation_id # None THEN "resolve" ELSE "idle"
    /\ UNCHANGED <<chat_sessions, current_chat_id, messages, show_citation_id,
                   documents_cache, view, docs, act, calls, resolved,
                   widgets, error>>

\* The fetch path of display_citation_modal, as the code has it.
Fetch(citation_id) ==
    \E doc_ids \in api_get_citation(citation_id) :
    \E fetched \in api_get_docs(doc_ids.val) :
        /\ docs' = fetched.val
        /\ calls' = calls \o <<Call("get_citation", citation_id, doc_ids),
                               Call("get_docs", doc_ids.val, fetched)>>
        /\ resolved' = IF fetched.val # <<>>
                       THEN Put(resolved, citation_id, fetched.val) ELSE resolved
        /\ documents_cache' =
              IF fetched.val # <<>>
              THEN Put(documents_cache, citation_id, fetched.val)
              ELSE documents_cache

\* display_citation_modal drawing the container only for a non-empty result
\* (the warning branch of lines 389-390 missing).
ResolveAndRender_NoWarning ==
    /\ pc = "resolve"
    /\ LET citation_id == show_citation_id IN
       IF citation_id \in DOMAIN documents_cache
       THEN /\ docs' = documents_cache[citation_id]
            /\ UNCHANGED <<documents_cache, calls, resolved>>
       ELSE Fetch(citation_id)
    /\ view' = IF docs' # <<>> THEN "ready" ELSE view
    /\ pc' = "idle"
    /\ UNCHANGED <<chat_sessions, current_chat_id, messages, show_citation_id,
                   modal_open, act, widgets, error>>

\* display_citation_modal without the cache lookup of line 367.
ResolveAndRender_NoLookup ==
    /\ pc = "resolve"
    /\ Fetch(show_citation_id)
    /\ view' = IF docs' # <<>> THEN "ready" ELSE "empty"
    /\ pc' = "idle"
    /\ UNCHANGED <<chat_sessions, current_chat_id, messages, show_citation_id,
                   modal_open, act, widgets, error>>

\* display_citation_modal caching whatever the fetch returned (no test of docs
\* at line 376).
ResolveAndRender_CacheAll ==
    /\ pc = "resolve"
    /\ LET citation_id == show_citation_id IN
       IF citation_id \in DOMAIN documents_cache
       THEN /\ docs' = documents_cache[citation_id]
            /\ UNCHANGED <<documents_cache, calls, resolved>>
       ELSE \E doc_ids \in api_get_citation(citation_id) :
            \E fetched \in api_get_docs(doc_ids.val) :
            /\ docs' = fetched.val
            /\ calls' = calls \o <<Call("get_citation", citation_id, doc_ids),
                                   Call("get_docs", doc_ids.val, fetched)>>
            /\ resolved' = IF fetched.val # <<>>
                           THEN Put(resolved, citation_id, fetched.val) ELSE resolved
            /\ documents_cache' = Put(documents_cache, citation_id, fetched.val)
    /\ view' = IF docs' # <<>> THEN "ready" ELSE "empty"
    /\ pc' = "idle"
    /\ UNCHANGED <<chat_sessions, current_chat_id, messages, show_citation_id,
                   modal_open, act, widgets, error>>

\* Lines 366-390: cache first, else resolve and fetch; only a truthy result is
\* cached; the container shows the documents or the warning.
ResolveAndRender ==
    /\ pc = "resolve"
    /\ LET citation_id == show_citation_id IN
       IF citation_id \in DOMAIN documents_cache
       THEN /\ docs' = documents_cache[citation_id]
            /\ UNCHANGED <<documents_cache, calls, resolved>>
       ELSE Fetch(citation_id)
    /\ view' = IF docs' # <<>> THEN "ready" ELSE "empty"
    /\ pc' = "idle"
    /\ UNCHANGED <<chat_sessions, current_chat_id, messages, show_citation_id,
                   modal_open, act, widgets, error>>

Next ==
    \/ InitializeApp
    \/ create_new_chat
    \/ \E chat_id \in SessionIds : select_session(chat_id)
    \/ \E citation_id \in CitationIds : click_citation(citation_id)
    \/ \E user_input \in Texts : submit_message(user_input)
    \/ close_citation
    \/ click_settings
    \/ Rerun
    \/ OpenCheck
    \/ ResolveAndRender

Spec == Init /\ [][Next]_vars

\* The script runner carries every pass it started to its end: the steps of a
\* pass (the rerun, the open check, the resolve and draw) are not left pending,
\* and every collaborator call returns. Handlers wait for the user: no fairness.
LiveSpec ==
    /\ Spec
    /\ WF_vars(InitializeApp)
    /\ WF_vars(Rerun)
    /\ WF_vars(OpenCheck)
    /\ WF_vars(ResolveAndRender)

TypeOK ==
    /\ DOMAIN chat_sessions \subseteq SessionIds
    /\ current_chat_id \in SessionIds \cup {None}
    /\ messages \in Transcripts
    /\ show_citation_id \in CitationIds \cup {None}
    /\ DOMAIN documents_cache \subseteq CitationIds
    /\ modal_open \in BOOLEAN
    /\ pc \in {"start", "idle", "rerun", "modal", "resolve"}
    /\ view \in {"none", "ready", "empty"}
    /\ Len(calls) <= 3

\* ---------------------------------------------------- transcript rendering
\* The rendering of the transcript and the click script of
\* render_text_with_citations, for citation ids whose decimal forms contain
\* one another and for citation entries without an id.
MaxRenderMsgs == 2
RenderIds == {1, 2, 10}
\* A citation entry that has no 'id' key.
MissingId == -1

RenderCitations == RenderIds \cup {MissingId}
RenderCitationLists ==
    {<<>>} \cup {<<a>> : a \in RenderCitations}
           \cup {<<a, b>> : a \in RenderCitations, b \in RenderCitations}
RenderTranscripts ==
    UNION {[1..n -> {Message(cs) : cs \in RenderCitationLists}] :
             n \in 0..MaxRenderMsgs}

DigitChars == <<"0", "1", "2", "3", "4", "5", "6", "7", "8", "9">>

\* str(n) of a natural number, as its sequence of characters.
RECURSIVE Str(_)
Str(n) ==
    IF n < 10 THEN <<DigitChars[n + 1]>>
    ELSE Str(n \div 10) \o <<DigitChars[(n % 10) + 1]>>

\* button_key = f"trigger-button-{citation_id}"; the literal part is one token.
ButtonKey(citation_id) == <<"trigger-button-">> \o Str(citation_id)

\* The class the keyed control carries in the enclosing page.
WidgetClass(key) == <<"st-key-">> \o key

\* The attribute selector [class*="..."]: the value occurs in the class.
Contains(hay, needle) ==
    \E i \in 0..(Len(hay) - Len(needle)) :
        SubSeq(hay, i + 1, i + Len(needle)) = needle

\* The loops of render_chat_area and render_chat_message over the messages
\* from message i, citation j on: one st.button per citation. citation['id']
\* of an entry without id raises KeyError; a key used twice in one pass makes
\* st.button raise. Either ends the pass.
RECURSIVE RenderButtons(_, _, _, _)
RenderButtons(ms, i, j, ws) ==
    IF i > Len(ms) THEN [widgets |-> ws, error |-> "none"]
    ELSE IF j > Len(ms[i].citations) THEN RenderButtons(ms, i + 1, 1, ws)
    ELSE LET citation_id == ms[i].citations[j] IN
         IF citation_id = MissingId
         THEN [widgets |-> ws, error |-> "KeyError"]
         ELSE LET w == [key |-> ButtonKey(citation_id), id |-> citation_id,
                        message |-> i]
              IN  IF \E k \in DOMAIN ws : ws[k].key = w.key
                  THEN [widgets |-> Append(ws, w), error |-> "DuplicateWidgetID"]
                  ELSE RenderButtons(ms, i, j + 1, Append(ws, w))

\* The controls that exist in the page: the st.button calls that succeeded.
PageControls ==
    IF error = "DuplicateWidgetID"
    THEN SubSeq(widgets, 1, Len(widgets) - 1) ELSE widgets

\* The marker ids a click can carry: the spans of the formatted text of a
\* message that has citations.
Markers ==
    IF \E i \in DOMAIN messages : messages[i].citations # <<>>
    THEN RenderIds ELSE {}

\* The pass up to the end of render_chat_area.
render_chat_area ==
    /\ pc = "render"
    /\ LET r == RenderButtons(messages, 1, 1, <<>>) IN
       /\ widgets' = r.widgets
       /\ error' = r.error
       /\ pc' = IF r.error = "none" THEN "modal" ELSE "idle"
    /\ UNCHANGED <<state, view, docs, act, calls, resolved>>

\* The click listener of a marker span (lines 60-68): the first element of
\* the enclosing page whose class contains trigger-button-<id> is looked up
\* and its button clicked, which runs the handler of lines 250-253 for the
\* citation of that control; with no such element hiddenInput is null and
\* hiddenInput.querySelector raises TypeError.
marker_click(citationId) ==
    /\ pc = "idle"
    /\ citationId \in Markers
    /\ act' = Act("marker", citationId, "")
    /\ LET lol == <<"trigger-button-">> \o Str(citationId)
           found == {k \in DOMAIN PageControls :
                       Contains(WidgetClass(PageControls[k].key), lol)}
       IN  IF found = {}
           THEN /\ error' = "TypeError"
                /\ UNCHANGED <<state, pc, view, docs, calls>>
           ELSE LET hiddenInput ==
                      PageControls[CHOOSE k \in found : \A l \in found : k <= l]
                IN  /\ show_citation_id' = hiddenInput.id
                    /\ pc' = "render"
                    /\ view' = "none"
                    /\ docs' = <<>>
                    /\ calls' = <<>>
                    /\ UNCHANGED <<chat_sessions, current_chat_id, messages,
                                   documents_cache, modal_open, error>>
    /\ UNCHANGED <<resolved, widgets>>

\* A chat is active and its transcript is about to be drawn.
RenderInit ==
    /\ chat_sessions = Put(EmptyDict, 1, Session(1))
    /\ current_chat_id = 1
    /\ messages \in RenderTranscripts
    /\ show_citation_id = None
    /\ documents_cache = EmptyDict
    /\ modal_open = FALSE
    /\ pc = "render"
    /\ view = "none"
    /\ docs = <<>>
    /\ act = Act("rerun", None, "")
    /\ calls = <<>>
    /\ resolved = EmptyDict
    /\ widgets = <<>>
    /\ error = "none"

RenderNext ==
    \/ render_chat_area
    \/ \E citationId \in RenderIds : marker_click(citationId)
    \/ OpenCheck
    \/ ResolveAndRender

RenderSpec == RenderInit /\ [][RenderNext]_vars

\* ------------------------------------------------------------------- claims
\* A step in which the handler `name` runs: handlers run from "idle" only and
\* record themselves in act.
Handles(name) == pc = "idle" /\ act'.name = name

SomeCallFailed(cs) == \E i \in DOMAIN cs : ~cs[i].ok

\* The states of the citation modal controller, read off the program state:
\* what the container shows in this pass, else whether the modal is open
\* for a selected citation whose documents are not yet determined.
ModalState ==
    CASE view = "ready" -> "OPEN_READY"
      [] view = "empty" -> "OPEN_EMPTY"
      [] view = "none" /\ modal_open /\ show_citation_id # None -> "OPEN_LOADING"
      [] view = "none" /\ ~modal_open -> "CLOSED"
      [] OTHER -> "OPEN_STALE"

\* C1: in every reachable state, the modal's open flag being true implies
\* that the selected citation id is not null.
C1_OpenImpliesSelected == modal_open => show_citation_id # None

\* C2: selecting a session other than the active one leaves the selected
\* citation id null, the modal open flag false and the document cache empty.
C2_SwitchResetsModal ==
    [][(Handles("select") /\ act'.id # current_chat_id)
         => /\ show_citation_id' = None
            /\ modal_open' = FALSE
            /\ documents_cache' = EmptyDict]_vars

\* C3: when a collaborator call made by select_session or submit_message
\* fails, the session list, the active session id, the message sequence and
\* the document cache keep the values they had before the action.
C3_FailureLeavesState ==
    [][((Handles("select") \/ Handles("submit")) /\ SomeCallFailed(calls'))
         => UNCHANGED <<chat_sessions, current_chat_id, messages, documents_cache>>]_vars

C5_CachedNotRefetched ==
    [][(pc = "resolve" /\ show_citation_id \in DOMAIN resolved)
         => /\ calls' = calls
            /\ docs' = resolved[show_citation_id]
            /\ view' = "ready"]_vars

\* C5 witness: a pass drew the documents of a resolved citation and made no
\* collaborator call.
C5_Witness ==
    /\ pc = "idle"
    /\ view = "ready"
    /\ show_citation_id \in DOMAIN resolved
    /\ docs = resolved[show_citation_id]
    /\ calls = <<>>

\* C6: a failed or empty resolve of c adds no entry for c to the document
\* cache, the cache never holds an empty value, and the next display of c
\* runs the fetch path again.
C6_FailureNotCached ==
    [][pc = "resolve"
         => LET c == show_citation_id IN
            /\ c \notin DOMAIN resolved
                 => /\ Len(calls') = Len(calls) + 2
                    /\ calls'[Len(calls') - 1].op = "get_citation"
                    /\ calls'[Len(calls') - 1].arg = c
                    /\ calls'[Len(calls')].op = "get_docs"
            /\ docs' = <<>> => c \notin DOMAIN documents_cache'
            /\ \A k \in DOMAIN documents_cache' : documents_cache'[k] # <<>>]_vars

\* C6 witness: the modal shows the warning for a citation whose fetch failed
\* in this pass, after an earlier pass had already failed to fetch it.
C6_Witness ==
    /\ pc = "idle"
    /\ view = "empty"
    /\ act.name = "settings"
    /\ Len(calls) = 2
    /\ ~calls[2].ok
    /\ show_citation_id \notin DOMAIN documents_cache

\* C7 as stated: submit_message with an active session and non-empty text
\* calls create_message and then always get_messages for the active session,
\* and the result replaces the message sequence.
C7_AlwaysRefetches ==
    [][(Handles("submit") /\ act'.text # "")
         => /\ Len(calls') = 2
            /\ calls'[1].op = "create_message"
            /\ calls'[1].arg = current_chat_id
            /\ calls'[2].op = "get_messages"
            /\ calls'[2].arg = current_chat_id
            /\ messages' = calls'[2].ret]_vars

\* C7 amended: submit_message with an active session and non-empty text first
\* calls create_message for the active session; when that call succeeds it
\* then calls get_messages for the same session and the result replaces the
\* message sequence wholesale; when it fails no get_messages call is made
\* and the message sequence is unchanged.
C7_RefetchesOnSuccess ==
    [][(Handles("submit") /\ act'.text # "")
         => /\ Len(calls') >= 1
            /\ calls'[1].op = "create_message"
            /\ calls'[1].arg = current_chat_id
            /\ IF calls'[1].ok
               THEN /\ Len(calls') = 2
                    /\ calls'[2].op = "get_messages"
                    /\ calls'[2].arg = current_chat_id
                    /\ messages' = calls'[2].ret
                    /\ current_chat_id' = current_chat_id
               ELSE /\ Len(calls') = 1
                    /\ messages' = messages]_vars

\* C7 witness: a submission was sent and the refreshed transcript, with a
\* citation, replaced the messages.
C7_Witness ==
    /\ act.name = "submit"
    /\ pc = "rerun"
    /\ Len(calls) = 2
    /\ calls[1].ok
    /\ messages = calls[2].ret
    /\ messages # <<>>

C9_ThroughLoading ==
    [][(ModalState' \in {"OPEN_READY", "OPEN_EMPTY"} /\ ModalState' # ModalState)
         => /\ ModalState = "OPEN_LOADING"
            /\ show_citation_id' = show_citation_id]_vars

\* C9 witness: the documents of a citation were drawn from the cache.
C9_Witness ==
    /\ ModalState = "OPEN_READY"
    /\ pc = "idle"
    /\ act.name = "rerun"
    /\ calls = <<>>

\* C10 as stated: in every reachable state in which the modal is closed, the
\* selected citation id is null.
C10_ClosedImpliesNoCitation == ~modal_open => show_citation_id = None

\* C10 amended: in every state in which the pass has run to its end (no rerun
\* pending, display_citation_modal done) and the modal is closed, the
\* selected citation id is null.
C10_ClosedAtRestImpliesNoCitation ==
    (pc = "idle" /\ ~modal_open) => show_citation_id = None

\* C10 witness: a citation was opened and resolved, and the modal was closed
\* again.
C10_Witness ==
    /\ pc = "idle"
    /\ ~modal_open
    /\ show_citation_id = None
    /\ resolved # EmptyDict

\* The collaborator calls made in the step: a handler starts the log anew,
\* display_citation_modal appends to it.
NewCalls ==
    IF pc \in {"modal", "resolve"}
    THEN SubSeq(calls', Len(calls) + 1, Len(calls'))
    ELSE calls'

C12_NoDirectChange ==
    [][(modal_open /\ modal_open'
          /\ show_citation_id # None /\ show_citation_id' # None)
         => show_citation_id' = show_citation_id]_vars

\* C12 amended: a click on a different citation b while the modal is open
\* for a sets the selected id directly to b with the open flag still true;
\* the modal is then in OPEN_LOADING for b, and documents that are drawn are
\* always those resolved for the selected id.
C12_DirectChangeThroughLoading ==
    [][/\ (Handles("click") /\ modal_open /\ show_citation_id # None
             /\ act'.id # show_citation_id)
            => /\ show_citation_id' = act'.id
               /\ modal_open'
               /\ ModalState' = "OPEN_LOADING"
       /\ view' = "ready"
            => /\ show_citation_id' \in DOMAIN resolved'
               /\ docs' = resolved'[show_citation_id']]_vars

\* C12 witness: a second citation was clicked while the modal was open for a
\* resolved first one.
C12_Witness ==
    /\ act.name = "click"
    /\ pc = "rerun"
    /\ modal_open
    /\ show_citation_id = act.id
    /\ \E a \in DOMAIN resolved : a # show_citation_id

\* C15: a submission is accepted only with an active session and non-empty
\* text; otherwise no collaborator call is made and the state is unchanged.
C15_SubmissionGuard ==
    [][/\ Handles("submit")
            => /\ current_chat_id # None
               /\ act'.text = "" => (calls' = <<>> /\ UNCHANGED state)
       /\ \A i \in DOMAIN NewCalls :
            NewCalls[i].op = "create_message"
              => /\ Handles("submit")
                 /\ act'.text # ""
                 /\ current_chat_id # None
                 /\ NewCalls[i].arg = current_chat_id]_vars

\* C15 witness: an empty submission was handled with a transcript on screen.
C15_Witness ==
    /\ act.name = "submit"
    /\ act.text = ""
    /\ calls = <<>>
    /\ messages # <<>>

\* C16: after a successful create_session returning s, s is in the session
\* mapping under its id, s.id is active, the messages are empty, no citation
\* is selected, the modal is not open and the cache is empty.
C16_CreateResets ==
    [][(Handles("create") /\ calls'[1].ok)
         => LET s == calls'[1].ret IN
            /\ s.id \in DOMAIN chat_sessions'
            /\ chat_sessions'[s.id] = s
            /\ current_chat_id' = s.id
            /\ messages' = <<>>
            /\ show_citation_id' = None
            /\ modal_open' = FALSE
            /\ documents_cache' = EmptyDict]_vars

\* C17: the session list is fetched exactly once, on the first pass, and on
\* no later pass; when that fetch fails the session mapping is empty and the
\* application goes on (a session can still be created).
C17_SessionsFetchedOnce ==
    [][/\ pc = "start"
            => /\ Len(calls') = 1
               /\ calls'[1].op = "get_sessions"
               /\ ~calls'[1].ok => chat_sessions' = EmptyDict
       /\ pc # "start"
            => /\ pc' # "start"
               /\ \A i \in DOMAIN NewCalls : NewCalls[i].op # "get_sessions"
       /\ (pc = "idle" /\ act.name = "init" /\ ~calls[1].ok)
            => ENABLED create_new_chat]_vars

\* C17 witness: the first pass ended with the session fetch failed and no
\* session known.
C17_Witness ==
    /\ act.name = "init"
    /\ pc = "idle"
    /\ ~calls[1].ok
    /\ chat_sessions = EmptyDict

\* C20: whenever the messages or the active session change, the messages are
\* empty or what the last get_messages call of that step returned for the
\* session that is active afterwards; the messages start empty.
C20_MessagesOfActiveSession ==
    [][(messages' # messages \/ current_chat_id' # current_chat_id)
         => \/ messages' = <<>>
            \/ \E i \in DOMAIN NewCalls :
                 /\ NewCalls[i].op = "get_messages"
                 /\ NewCalls[i].arg = current_chat_id'
                 /\ NewCalls[i].ret = messages'
                 /\ \A j \in DOMAIN NewCalls :
                      j > i => NewCalls[j].op # "get_messages"]_vars

\* C20 witness: a session with a transcript was left by creating a new
\* session, whose transcript is empty.
C20_Witness ==
    /\ act.name = "create"
    /\ pc = "rerun"
    /\ messages = <<>>
    /\ resolved = EmptyDict
    /\ Cardinality(DOMAIN chat_sessions) >= 2

\* The citation entries of the transcript that have an id, as <<message, id>>.
WellFormedCitations ==
    UNION {{<<i, messages[i].citations[j]>> : j \in DOMAIN messages[i].citations} :
             i \in DOMAIN messages}
      \ {<<i, MissingId>> : i \in DOMAIN messages}

HasMalformedCitation ==
    \E i \in DOMAIN messages : \E j \in DOMAIN messages[i].citations :
        messages[i].citations[j] = MissingId

\* No citation id occurs twice in one message.
UniqueWithinMessages ==
    \A i \in DOMAIN messages :
        \A j, k \in DOMAIN messages[i].citations :
            messages[i].citations[j] = messages[i].citations[k] => j = k

\* No citation id occurs twice in the transcript.
UniqueInTranscript ==
    /\ UniqueWithinMessages
    /\ \A p, q \in WellFormedCitations : p[2] = q[2] => p[1] = q[1]

\* C13: a click on the marker of a displayed citation c activates the control
\* keyed trigger-button-<c>, so that the selected citation id becomes c,
\* also when one displayed id is a prefix or substring of another.
C13_ClickSelectsItsCitation ==
    [][(pc = "idle" /\ error = "none" /\ act'.name = "marker"
          /\ \E k \in DOMAIN PageControls : PageControls[k].id = act'.id)
         => show_citation_id' = act'.id]_vars

\* C14: a click on a marker for which the page has no control keyed
\* trigger-button-<id> raises no error and changes no application state.
C14_UnmatchedClickIsSilent ==
    [][(pc = "idle" /\ error = "none" /\ act'.name = "marker"
          /\ \A k \in DOMAIN PageControls : PageControls[k].key # ButtonKey(act'.id))
         => /\ error' # "TypeError"
            /\ UNCHANGED state]_vars

\* C18: a citation entry without an id is skipped: the rendering pass ends
\* without an error and the controls of the well-formed citations are drawn.
C18_MalformedCitationSkipped ==
    (pc # "render" /\ HasMalformedCitation /\ UniqueInTranscript)
      => /\ error # "KeyError"
         /\ \A p \in WellFormedCitations :
              \E k \in DOMAIN PageControls :
                  PageControls[k].id = p[2] /\ PageControls[k].message = p[1]

\* C19: in one rendering pass of a transcript whose citation ids are unique
\* within each message, all citation controls have different keys.
C19_ControlKeysDistinct ==
    (pc # "render" /\ UniqueWithinMessages /\ ~HasMalformedCitation)
      => \A k, l \in DOMAIN widgets :
            widgets[k].key = widgets[l].key => k = l

====
